---- MODULE Spec2Model ----
(***************************************************************************)
(* Model of ac-version-for-fenix-beta.py: a GitHub action that finds the   *)
(* latest Fenix release branch, checks that it is in beta, reads the       *)
(* Android-Components version pinned on it and prints its major version.   *)
(*                                                                         *)
(* A Python str is a sequence of one-character strings.  A Python call     *)
(* that may raise returns Ret(v) or Raise(e).  None is the record None.    *)
(***************************************************************************)
EXTENDS Integers, Sequences, FiniteSets, TLC

VARIABLES
    pc,                    \* position of the main script, or of a function call
    verbose,               \* os.getenv("VERBOSE") == "true"
    organization,          \* os.getenv("GITHUB_REPOSITORY_OWNER")
    branches,              \* names returned by repo.get_branches()
    latest_fenix_version,  \* result of get_latest_fenix_version
    branch_name,           \* f"releases_v{latest_fenix_version}.0.0"
    version,               \* decoded content of version.txt
    src,                   \* decoded content of AndroidComponents.kt
    current_ac_version,    \* result of get_current_ac_version_in_fenix
    major_ac_version,      \* result of major_ac_version_from_version
    stdout,                \* the lines printed so far
    remote,                \* the calls made to the GitHub API so far
    exit,                  \* how the process ended
    arg,                   \* argument of a function called on its own
    ret                    \* what that call returned or raised

vars == <<pc, verbose, organization, branches, latest_fenix_version, branch_name,
          version, src, current_ac_version, major_ac_version, stdout, remote,
          exit, arg, ret>>

mainVars == <<verbose, organization, branches, latest_fenix_version, branch_name,
              version, src, current_ac_version, major_ac_version, stdout, remote,
              exit>>

----------------------------------------------------------------------------
(* Bounds of the model *)

\* longest version text handed to is_beta_version and validate_ac_version
MaxLen == 6
\* most branches a listing returns
MaxBranches == 2
\* most chunks the build-descriptor text is made of
MaxChunks == 3

----------------------------------------------------------------------------
(* Python values *)

None == [some |-> FALSE]
Some(v) == [some |-> TRUE, val |-> v]
Ret(v) == [ok |-> TRUE, val |-> v]
Raise(e) == [ok |-> FALSE, exc |-> e]

\* the characters \d matches among those of the texts modelled (in Python it
\* matches the other Unicode decimal digits as well)
DigitChars == {"0", "1", "2", "3", "4", "5", "6", "7", "8", "9"}
IsDigit(c) == c \in DigitChars
AllDigits(s, i, j) == \A k \in i..j : IsDigit(s[k])

DigitVal(c) ==
    CASE c = "0" -> 0 [] c = "1" -> 1 [] c = "2" -> 2 [] c = "3" -> 3
      [] c = "4" -> 4 [] c = "5" -> 5 [] c = "6" -> 6 [] c = "7" -> 7
      [] c = "8" -> 8 [] c = "9" -> 9

DigitChar(n) == <<"0", "1", "2", "3", "4", "5", "6", "7", "8", "9">>[n + 1]

\* int(s) for a run of digits
RECURSIVE ParseInt(_)
ParseInt(s) ==
    IF Len(s) = 0 THEN 0
    ELSE 10 * ParseInt(SubSeq(s, 1, Len(s) - 1)) + DigitVal(s[Len(s)])

\* str(n), as an f-string formats an int
RECURSIVE FormatInt(_)
FormatInt(n) ==
    IF n < 10 THEN <<DigitChar(n)>>
    ELSE FormatInt(n \div 10) \o <<DigitChar(n % 10)>>

\* s.split(sep) for a one-character sep
RECURSIVE Split(_, _)
Split(s, sep) ==
    IF \A k \in 1..Len(s) : s[k] # sep THEN <<s>>
    ELSE LET p == CHOOSE k \in 1..Len(s) :
                      s[k] = sep /\ \A j \in 1..(k - 1) : s[j] # sep
         IN  <<SubSeq(s, 1, p - 1)>> \o Split(SubSeq(s, p + 1, Len(s)), sep)

\* sorted(xs, reverse=True)
RECURSIVE InsertDesc(_, _)
InsertDesc(x, xs) ==
    IF xs = <<>> THEN <<x>>
    ELSE IF x >= Head(xs) THEN <<x>> \o xs
    ELSE <<Head(xs)>> \o InsertDesc(x, Tail(xs))

RECURSIVE SortedDesc(_)
SortedDesc(xs) ==
    IF xs = <<>> THEN <<>> ELSE InsertDesc(Head(xs), SortedDesc(Tail(xs)))

\* the positions at which a pattern's final $ matches: the end of the
\* string, and just before a newline that ends the string
DollarEnds(s) ==
    {Len(s)} \cup (IF Len(s) > 0 /\ s[Len(s)] = "\n" THEN {Len(s) - 1} ELSE {})

----------------------------------------------------------------------------
(* The functions of the script *)

\* re.match(r"^\d+\.0b\d+$", v)
MatchAcVersion(v) ==
    \E i \in 1..Len(v), e \in DollarEnds(v) :
        /\ i + 4 <= e
        /\ AllDigits(v, 1, i)
        /\ v[i + 1] = "."
        /\ v[i + 2] = "0"
        /\ v[i + 3] = "b"
        /\ AllDigits(v, i + 4, e)

\* validate_ac_version with the raise left out
validate_ac_version_lenient(v) == Ret(v)

validate_ac_version(v) ==
    IF ~MatchAcVersion(v) THEN Raise("Invalid AC version format")
    ELSE Ret(v)

\* major_ac_version_from_version taking the last component, not the first
major_ac_version_from_version_last(v) ==
    LET r == validate_ac_version(v)
    IN  IF ~r.ok THEN r
        ELSE LET c == Split(r.val, ".") IN Ret(c[Len(c)])

major_ac_version_from_version(v) ==
    LET r == validate_ac_version(v)
    IN  IF ~r.ok THEN r
        ELSE LET c == Split(r.val, ".") IN Ret(c[1])

RELEASES == <<"r", "e", "l", "e", "a", "s", "e", "s">>
DOT00 == <<".", "0", ".", "0">>

\* the end of the (\d+) group when r"^releases[_/]v(\d+)\.0\.0$" matches
\* branch_name from its start; no position when it does not match
ReleaseBranchCapture(name) ==
    {j \in 11..Len(name) :
        /\ SubSeq(name, 1, 8) = RELEASES
        /\ name[9] \in {"_", "/"}
        /\ name[10] = "v"
        /\ AllDigits(name, 11, j)
        /\ j + 4 <= Len(name)
        /\ SubSeq(name, j + 1, j + 4) = DOT00
        /\ (j + 4) \in DollarEnds(name)}

major_version_from_fenix_release_branch_name(name) ==
    IF ReleaseBranchCapture(name) # {}
    THEN LET j == CHOOSE k \in ReleaseBranchCapture(name) : TRUE
         IN  Ret(ParseInt(SubSeq(name, 11, j)))
    ELSE Raise("Unexpected release branch name")

\* re.match(r"^releases[_/]v\d+\.0\.0$", branch.name)
MatchReleaseBranch(name) == ReleaseBranchCapture(name) # {}

\* names: the names of repo.get_branches(), in the order listed
get_fenix_release_branches(names) == SelectSeq(names, MatchReleaseBranch)

\* get_latest_fenix_version with reverse=True left out of sorted
get_latest_fenix_version_ascending(names) ==
    LET rel == get_fenix_release_branches(names)
        majors == [k \in 1..Len(rel) |->
                      major_version_from_fenix_release_branch_name(rel[k]).val]
    IN  IF Len(majors) > 0
        THEN Ret(Some(SortedDesc(majors)[Len(majors)]))
        ELSE Ret(None)

get_latest_fenix_version(names) ==
    LET rel == get_fenix_release_branches(names)
        rs  == [k \in 1..Len(rel) |->
                   major_version_from_fenix_release_branch_name(rel[k])]
    IN  IF \E k \in 1..Len(rs) : ~rs[k].ok
        THEN rs[CHOOSE k \in 1..Len(rs) :
                    ~rs[k].ok /\ \A j \in 1..(k - 1) : rs[j].ok]
        ELSE LET major_fenix_versions == [k \in 1..Len(rs) |-> rs[k].val]
             IN  IF Len(major_fenix_versions) > 0
                 THEN Ret(Some(SortedDesc(major_fenix_versions)[1]))
                 ELSE Ret(None)

QUOTE == "\""
MARKER == <<"V", "E", "R", "S", "I", "O", "N", " ", "=", " ", QUOTE>>

\* whether r'VERSION = "([^"]*)"' matches s starting at position p
MatchVersionAt(s, p) ==
    /\ p + Len(MARKER) - 1 <= Len(s)
    /\ SubSeq(s, p, p + Len(MARKER) - 1) = MARKER
    /\ \E q \in (p + Len(MARKER))..Len(s) : s[q] = QUOTE

\* the ([^"]*) group of the match at p: up to the next quote
VersionCaptureAt(s, p) ==
    LET a == p + Len(MARKER)
        q == CHOOSE k \in a..Len(s) :
                 s[k] = QUOTE /\ \A j \in a..(k - 1) : s[j] # QUOTE
    IN  SubSeq(s, a, q - 1)

\* pattern.search(s): the match at the leftmost position from p on
RECURSIVE SearchVersion(_, _)
SearchVersion(s, p) ==
    IF p > Len(s) THEN None
    ELSE IF MatchVersionAt(s, p) THEN Some(VersionCaptureAt(s, p))
    ELSE SearchVersion(s, p + 1)

\* match_ac_version_in_fenix returning the captured value unvalidated
match_ac_version_in_fenix_unvalidated(text) ==
    LET match == SearchVersion(text, 1)
    IN  IF match.some THEN Ret(match.val)
        ELSE Raise("Could not match the VERSION in AndroidComponents.kt")

\* match_ac_version_in_fenix returning an empty version, not raising, when
\* the text holds no assignment
match_ac_version_in_fenix_silent(text) ==
    LET match == SearchVersion(text, 1)
    IN  IF match.some THEN validate_ac_version(match.val)
        ELSE Ret(<<>>)

match_ac_version_in_fenix(text) ==
    LET match == SearchVersion(text, 1)
    IN  IF match.some THEN validate_ac_version(match.val)
        ELSE Raise("Could not match the VERSION in AndroidComponents.kt")

\* content: what fenix_repo.get_contents(AndroidComponents.kt, ref) returned
\* or raised
get_current_ac_version_in_fenix(content) ==
    IF ~content.ok THEN content
    ELSE match_ac_version_in_fenix(content.val)

\* re.compile(r'\d+.0b\d+', re.MULTILINE).match(version), as a truth value;
\* the unescaped . is any character but a newline
is_beta_version(v) ==
    \E i \in 1..Len(v) :
        /\ i + 4 <= Len(v)
        /\ AllDigits(v, 1, i)
        /\ v[i + 1] # "\n"
        /\ v[i + 2] = "0"
        /\ v[i + 3] = "b"
        /\ IsDigit(v[i + 4])

\* is_fenix_beta_branch answering true whatever version.txt holds
is_fenix_beta_branch_always(content) ==
    IF ~content.ok THEN content
    ELSE Ret(TRUE)

\* content: what fenix_repo.get_contents("version.txt", ref) returned or raised
is_fenix_beta_branch(content) ==
    IF ~content.ok THEN content
    ELSE Ret(is_beta_version(content.val))

----------------------------------------------------------------------------
(* The main script *)

Line(level, text, val) == [level |-> level, text |-> text, val |-> val]
Call(op, path, ref) == [op |-> op, path |-> path, ref |-> ref]

Running == [how |-> "running", status |-> 0, exc |-> ""]
Ended == [how |-> "end of script", status |-> 0, exc |-> ""]
SysExit1 == [how |-> "sys.exit", status |-> 1, exc |-> ""]
Uncaught(e) == [how |-> "uncaught exception", status |-> 1, exc |-> e]

\* Python's "not x" for an int or None, and for a str
NotInt(x) == ~x.some \/ x.val = 0
NotStr(s) == Len(s) = 0

\* if verbose: print(line)
Say(line) == IF verbose THEN Append(stdout, line) ELSE stdout

MAIN == <<"m", "a", "i", "n">>
VERSION_TXT == "version.txt"
ANDROID_COMPONENTS_KT == "buildSrc/src/main/java/AndroidComponents.kt"

ReleaseName(sep, digits) == RELEASES \o <<sep, "v">> \o digits \o DOT00

\* the digit runs of the branch names a listing may hold
DigitRuns == {<<"0">>, <<"1">>, <<"2">>, <<"0", "1">>, <<"1", "0">>}

\* the names a listing may hold: release branches with either separator,
\* and names that are no release branch
BranchNames ==
    {ReleaseName(sep, d) : sep \in {"_", "/"}, d \in DigitRuns}
    \cup {MAIN,
          ReleaseName("-", <<"3">>),
          RELEASES \o <<"_", "v", "3", "x", "0", ".", "0">>,
          ReleaseName("_", <<"3">>) \o <<"x">>}

BranchLists == UNION {[1..n -> BranchNames] : n \in 0..MaxBranches}

\* the contents version.txt may have
VersionTexts ==
    {<<"1", ".", "0", "b", "1", "\n">>,
     <<"1", "0", ".", "0", "b", "2">>,
     <<"1", ".", "0", ".", "0", "\n">>,
     <<"1", "x", "0", "b", "1">>,
     <<>>}

Assign(v) == MARKER \o v \o <<QUOTE>>

\* the contents AndroidComponents.kt may have
KtTexts ==
    {<<"x", "\n">> \o Assign(<<"1", "2", ".", "0", "b", "3">>) \o <<"\n">>,
     Assign(<<"7", ".", "0", "b", "1">>) \o Assign(<<"8", ".", "0", "b", "1">>),
     Assign(<<"7", ".", "0", "b", "1", "\n">>),
     Assign(<<"7", ".", "0">>) \o Assign(<<"8", ".", "0", "b", "1">>),
     Assign(<<>>),
     <<"x", "\n">>}

NotFound == Raise("UnknownObjectException")

\* no line of the main script has run
MainInit ==
    /\ verbose = FALSE
    /\ organization = None
    /\ branches = <<>>
    /\ latest_fenix_version = None
    /\ branch_name = <<>>
    /\ version = <<>>
    /\ src = <<>>
    /\ current_ac_version = <<>>
    /\ major_ac_version = <<>>
    /\ stdout = <<>>
    /\ remote = <<>>
    /\ exit = Running

Init ==
    /\ pc = "Start"
    /\ MainInit
    /\ arg = <<>>
    /\ ret = None

\* lines 85-88
GetUser ==
    /\ pc = "Start"
    /\ \E user_is_none \in BOOLEAN :
        IF user_is_none
        THEN /\ stdout' = Append(stdout,
                    Line("E", "Could not get authenticated user. Exiting.", <<>>))
             /\ exit' = SysExit1
             /\ pc' = "Failed"
        ELSE /\ pc' = "Authenticated"
             /\ UNCHANGED <<stdout, exit>>
    /\ UNCHANGED <<verbose, organization, branches, latest_fenix_version,
                   branch_name, version, src, current_ac_version,
                   major_ac_version, remote, arg, ret>>

\* lines 90-95
ReadEnvironment ==
    /\ pc = "Authenticated"
    /\ \E v \in BOOLEAN, org \in {None, Some(""), Some("mozilla-mobile")} :
        /\ verbose' = v
        /\ organization' = org
        /\ IF ~org.some \/ org.val = ""
           THEN /\ stdout' = Append(stdout,
                       Line("E", "No GITHUB_REPOSITORY_OWNER set. Exiting.", <<>>))
                /\ exit' = SysExit1
                /\ pc' = "Failed"
           ELSE /\ pc' = "Configured"
                /\ UNCHANGED <<stdout, exit>>
    /\ UNCHANGED <<branches, latest_fenix_version, branch_name, version, src,
                   current_ac_version, major_ac_version, remote, arg, ret>>

\* line 97
GetRepo ==
    /\ pc = "Configured"
    /\ remote' = Append(remote, Call("get_repo", "", <<>>))
    /\ \E found \in BOOLEAN :
        IF found
        THEN /\ pc' = "RepoOpened"
             /\ UNCHANGED exit
        ELSE /\ pc' = "Crashed"
             /\ exit' = Uncaught(NotFound.exc)
    /\ UNCHANGED <<verbose, organization, branches, latest_fenix_version,
                   branch_name, version, src, current_ac_version,
                   major_ac_version, stdout, arg, ret>>

\* lines 107-113; listing is what repo.get_branches() returned or raised
FindLatestFenixVersion ==
    /\ pc = "RepoOpened"
    /\ remote' = Append(remote, Call("get_branches", "", <<>>))
    /\ \E listing \in {Raise("GithubException")} \cup {Ret(ns) : ns \in BranchLists} :
        IF ~listing.ok
        THEN /\ pc' = "Crashed"
             /\ exit' = Uncaught(listing.exc)
             /\ UNCHANGED <<branches, latest_fenix_version, stdout>>
        ELSE LET r == get_latest_fenix_version(listing.val)
             IN  /\ branches' = listing.val
                 /\ IF ~r.ok
                    THEN /\ pc' = "Crashed"
                         /\ exit' = Uncaught(r.exc)
                         /\ UNCHANGED <<latest_fenix_version, stdout>>
                    ELSE /\ latest_fenix_version' = r.val
                         /\ IF NotInt(r.val)
                            THEN /\ stdout' = Append(stdout,
                                        Line("E", "Could not determine current A-C version on", <<>>))
                                 /\ exit' = SysExit1
                                 /\ pc' = "Failed"
                            ELSE /\ stdout' = Say(Line("I", "Latest Fenix version is",
                                                       FormatInt(r.val.val)))
                                 /\ pc' = "BranchSelected"
                                 /\ UNCHANGED exit
    /\ UNCHANGED <<verbose, organization, branch_name, version, src,
                   current_ac_version, major_ac_version, arg, ret>>

\* lines 115-121; content is what get_contents("version.txt", ref) returned
\* or raised
CheckBetaBranch ==
    /\ pc = "BranchSelected"
    /\ LET name == RELEASES \o <<"_", "v">>
                     \o FormatInt(latest_fenix_version.val) \o DOT00
       IN  /\ branch_name' = name
           /\ remote' = Append(remote, Call("get_contents", VERSION_TXT, name))
           /\ \E content \in {NotFound} \cup {Ret(t) : t \in VersionTexts} :
               LET r == is_fenix_beta_branch(content)
               IN  IF ~r.ok
                   THEN /\ pc' = "Crashed"
                        /\ exit' = Uncaught(r.exc)
                        /\ UNCHANGED <<version, stdout>>
                   ELSE /\ version' = content.val
                        /\ IF ~r.val
                           THEN /\ stdout' = Append(stdout,
                                       Line("E", "Branch is not in beta", name))
                                /\ exit' = SysExit1
                                /\ pc' = "Failed"
                           ELSE /\ stdout' = Say(Line("I", "Latest Fenix branch name is", name))
                                /\ pc' = "BetaConfirmed"
                                /\ UNCHANGED exit
    /\ UNCHANGED <<verbose, organization, branches, latest_fenix_version, src,
                   current_ac_version, major_ac_version, arg, ret>>

\* lines 123-129; content is what get_contents(AndroidComponents.kt, ref)
\* returned or raised
GetCurrentAcVersion ==
    /\ pc = "BetaConfirmed"
    /\ remote' = Append(remote, Call("get_contents", ANDROID_COMPONENTS_KT, branch_name))
    /\ \E content \in {NotFound} \cup {Ret(t) : t \in KtTexts} :
        LET r == get_current_ac_version_in_fenix(content)
        IN  /\ src' = IF content.ok THEN content.val ELSE src
            /\ IF ~r.ok
               THEN /\ pc' = "Crashed"
                    /\ exit' = Uncaught(r.exc)
                    /\ UNCHANGED <<current_ac_version, stdout>>
               ELSE /\ current_ac_version' = r.val
                    /\ IF NotStr(r.val)
                       THEN /\ stdout' = Append(stdout,
                                   Line("E", "Could not determine current A-C version on branch",
                                        branch_name))
                            /\ exit' = SysExit1
                            /\ pc' = "Failed"
                       ELSE /\ stdout' = Say(Line("I", "Current A-C version used in Fenix is",
                                                  r.val))
                            /\ pc' = "VersionExtracted"
                            /\ UNCHANGED exit
    /\ UNCHANGED <<verbose, organization, branches, latest_fenix_version,
                   branch_name, version, major_ac_version, arg, ret>>

\* lines 131-134
ComputeMajorAcVersion ==
    /\ pc = "VersionExtracted"
    /\ LET r == major_ac_version_from_version(current_ac_version)
       IN  IF ~r.ok
           THEN /\ pc' = "Crashed"
                /\ exit' = Uncaught(r.exc)
                /\ UNCHANGED <<major_ac_version, stdout>>
           ELSE /\ major_ac_version' = r.val
                /\ stdout' = Say(Line("I", "Major A-C version is", r.val))
                /\ pc' = "MajorComputed"
                /\ UNCHANGED exit
    /\ UNCHANGED <<verbose, organization, branches, latest_fenix_version,
                   branch_name, version, src, current_ac_version, remote, arg, ret>>

\* line 136 and the end of the script
SetOutput ==
    /\ pc = "MajorComputed"
    /\ stdout' = Append(stdout,
           Line("out", "::set-output name=major-ac-version::", major_ac_version))
    /\ exit' = Ended
    /\ pc' = "Done"
    /\ UNCHANGED <<verbose, organization, branches, latest_fenix_version,
                   branch_name, version, src, current_ac_version,
                   major_ac_version, remote, arg, ret>>

Next ==
    \/ GetUser
    \/ ReadEnvironment
    \/ GetRepo
    \/ FindLatestFenixVersion
    \/ CheckBetaBranch
    \/ GetCurrentAcVersion
    \/ ComputeMajorAcVersion
    \/ SetOutput

Spec == Init /\ [][Next]_vars

\* the script runs to its end: nothing waits on anything else
FairSpec == Spec /\ WF_vars(Next)

----------------------------------------------------------------------------
(* The functions on version texts, called on their own *)

TextChars == {"0", "1", ".", "b", "x", "\n"}
Texts == UNION {[1..n -> TextChars] : n \in 0..MaxLen}

InitText ==
    /\ pc = "call"
    /\ MainInit
    /\ arg \in Texts
    /\ ret = None

CallIsBetaVersion ==
    /\ pc = "call"
    /\ pc' = "is_beta_version"
    /\ ret' = Ret(is_beta_version(arg))
    /\ UNCHANGED <<mainVars, arg>>

CallValidateAcVersion ==
    /\ pc = "call"
    /\ pc' = "validate_ac_version"
    /\ ret' = validate_ac_version(arg)
    /\ UNCHANGED <<mainVars, arg>>

CallMajorAcVersionFromVersion ==
    /\ pc = "call"
    /\ pc' = "major_ac_version_from_version"
    /\ ret' = major_ac_version_from_version(arg)
    /\ UNCHANGED <<mainVars, arg>>

NextText ==
    \/ CallIsBetaVersion
    \/ CallValidateAcVersion
    \/ CallMajorAcVersionFromVersion

SpecText == InitText /\ [][NextText]_vars

----------------------------------------------------------------------------
(* match_ac_version_in_fenix, called on its own *)

RECURSIVE Concat(_)
Concat(ss) == IF ss = <<>> THEN <<>> ELSE Head(ss) \o Concat(Tail(ss))

\* the pieces a build-descriptor text is made of: assignments of valid and
\* invalid values, an assignment with no closing quote, one with no spaces,
\* a quote and other text
Chunks ==
    {Assign(<<"7", ".", "0", "b", "1">>),
     Assign(<<"8", ".", "0", "b", "2">>),
     Assign(<<"7", ".", "0", "b", "1", "\n">>),
     Assign(<<"7", ".", "0">>),
     Assign(<<>>),
     MARKER,
     <<"V", "E", "R", "S", "I", "O", "N", "=", QUOTE, "9", ".", "0", "b", "1", QUOTE>>,
     <<QUOTE>>,
     <<"x", "\n">>}

KtSources == {Concat(cs) : cs \in UNION {[1..n -> Chunks] : n \in 0..MaxChunks}}

InitMatch ==
    /\ pc = "call"
    /\ MainInit
    /\ arg \in KtSources
    /\ ret = None

CallMatchAcVersionInFenix ==
    /\ pc = "call"
    /\ pc' = "match_ac_version_in_fenix"
    /\ ret' = match_ac_version_in_fenix(arg)
    /\ UNCHANGED <<mainVars, arg>>

NextMatch == CallMatchAcVersionInFenix

SpecMatch == InitMatch /\ [][NextMatch]_vars

----------------------------------------------------------------------------
(* What the claims speak of, said without the functions of the script *)

\* a non-empty run of digits
IsDigitRun(s) == Len(s) >= 1 /\ \A k \in 1..Len(s) : s[k] \in DigitChars

DOT0B == <<".", "0", "b">>

\* the whole of v is digits, ".0b", digits
HasVersionFormat(v) ==
    \E i \in 1..Len(v) :
        /\ i + 4 <= Len(v)
        /\ IsDigitRun(SubSeq(v, 1, i))
        /\ SubSeq(v, i + 1, i + 3) = DOT0B
        /\ IsDigitRun(SubSeq(v, i + 4, Len(v)))

\* v begins with digits, ".0b", digits
BeginsWithVersionFormat(v) ==
    \E n \in 1..Len(v) : HasVersionFormat(SubSeq(v, 1, n))

\* name is releases_v<N>.0.0 or releases/v<N>.0.0
IsReleaseName(name) ==
    /\ Len(name) >= 15
    /\ \E sep \in {"_", "/"} :
           name = ReleaseName(sep, SubSeq(name, 11, Len(name) - 4))
    /\ IsDigitRun(SubSeq(name, 11, Len(name) - 4))

\* d spells n in decimal, leading zeros allowed
Spells(d, n) ==
    \E z \in 0..(Len(d) - 1) :
        /\ \A k \in 1..z : d[k] = "0"
        /\ SubSeq(d, z + 1, Len(d)) = FormatInt(n)

\* the N of a release name
NameMajor(name) ==
    LET d == SubSeq(name, 11, Len(name) - 4)
    IN  CHOOSE n \in 0..(10 ^ Len(d)) : Spells(d, n)

ReleaseMajors(names) ==
    {NameMajor(names[k]) : k \in {j \in 1..Len(names) : IsReleaseName(names[j])}}

\* the pairs <<p, q>> such that VERSION = " stands at p and the next quote
\* after it at q
Assignments(s) ==
    LET starts == {p \in 1..Len(s) :
                      /\ p + Len(MARKER) - 1 <= Len(s)
                      /\ SubSeq(s, p, p + Len(MARKER) - 1) = MARKER}
        quotes == {q \in 1..Len(s) : s[q] = QUOTE}
    IN  {pq \in starts \X quotes :
            /\ pq[1] + Len(MARKER) <= pq[2]
            /\ \A k \in quotes : ~(pq[1] + Len(MARKER) <= k /\ k < pq[2])}

FirstAssignment(s) ==
    CHOOSE pq \in Assignments(s) : \A o \in Assignments(s) : pq[1] <= o[1]

\* the value between the quotes of the first VERSION = "<value>" of s
FirstValue(s) ==
    LET pq == FirstAssignment(s)
    IN  SubSeq(s, pq[1] + Len(MARKER), pq[2] - 1)

\* the longest run of digits s begins with
LeadingDigits(s) ==
    LET n == CHOOSE k \in 0..Len(s) :
                 /\ \A j \in 1..k : s[j] \in DigitChars
                 /\ k < Len(s) => s[k + 1] \notin DigitChars
    IN  SubSeq(s, 1, n)

\* the calls made so far, by what they ask for
Asked == [k \in 1..Len(remote) |->
             IF remote[k].op = "get_contents" THEN remote[k].path ELSE remote[k].op]
HasAsked(what) == \E k \in 1..Len(remote) : Asked[k] = what

\* the environment was read: github.get_user() returned a user
EnvironmentRead ==
    /\ pc \notin {"Start", "Authenticated"}
    /\ ~(exit = SysExit1 /\ stdout[1].text = "Could not get authenticated user. Exiting.")

\* repo.get_branches() was called and returned
Listed == HasAsked("get_branches") /\ exit.exc # "GithubException"
\* get_contents returned the build-descriptor
GotDescriptor ==
    /\ HasAsked(ANDROID_COMPONENTS_KT)
    /\ ~(exit.exc = NotFound.exc /\ Asked[Len(remote)] = ANDROID_COMPONENTS_KT)

Errors == {k \in 1..Len(stdout) : stdout[k].level = "E"}
Outputs == {k \in 1..Len(stdout) : stdout[k].level = "out"}

\* the states of the run, as the design names them
State ==
    IF pc \in {"Start", "Authenticated", "Configured", "RepoOpened"} THEN "Start"
    ELSE pc
Terminal == pc \in {"Done", "Failed", "Crashed"}

----------------------------------------------------------------------------
(* The claims *)

\* C1: once the branches are listed, latest_fenix_version is the greatest N
\* among the listed names of the form releases_v<N>.0.0 or
\* releases/v<N>.0.0, other names ignored, and None when no name has
\* that form.
C1_LatestIsMaximum ==
    Listed =>
        IF ReleaseMajors(branches) = {}
        THEN latest_fenix_version = None
        ELSE /\ latest_fenix_version.some
             /\ latest_fenix_version.val \in ReleaseMajors(branches)
             /\ \A n \in ReleaseMajors(branches) : n <= latest_fenix_version.val

\* C1 witness: a listing of a release name with "_" and a greater one with
\* "/", whose N is the result.
C1_Witness ==
    /\ Listed
    /\ Len(branches) = 2
    /\ IsReleaseName(branches[1]) /\ branches[1][9] = "_"
    /\ IsReleaseName(branches[2]) /\ branches[2][9] = "/"
    /\ NameMajor(branches[1]) < NameMajor(branches[2])
    /\ latest_fenix_version = Some(NameMajor(branches[2]))

\* C2 (as claimed): once the branches are listed, the run ends in the
\* discovery failure if and only if no listed name is a release name.
C2_DiscoveryFailureIffNoRelease ==
    Listed =>
        ((/\ exit = SysExit1
          /\ ~HasAsked(VERSION_TXT)) <=> ReleaseMajors(branches) = {})

\* C3 (as claimed): is_beta_version is true if and only if the text begins
\* with digits, the literal ".0b", digits.
C3_BetaIffLiteralDot ==
    pc = "is_beta_version" => (ret.val <=> BeginsWithVersionFormat(arg))

\* C4 (as claimed): validate_ac_version returns v if and only if the whole
\* of v is digits, ".0b", digits, and raises the invalid-format error for
\* every other v.
C4_ValidIffWholeFormat ==
    pc = "validate_ac_version" =>
        IF HasVersionFormat(arg) THEN ret = Ret(arg)
        ELSE ret = Raise("Invalid AC version format")

\* C5: the major-ac-version output is printed at most once, only in Done,
\* after a branch was selected, version.txt passed the beta check and the
\* VERSION value passed validate_ac_version; its value is the leading digit
\* run of that VERSION value, which a "." follows.  A run that ended in
\* Failed or in an uncaught exception has printed no output.
C5_OutputOnlyWhenDone ==
    /\ Cardinality(Outputs) <= 1
    /\ (pc = "Done") <=> (Outputs # {})
    /\ Outputs # {} =>
        /\ Outputs = {Len(stdout)}
        /\ exit = Ended
        /\ latest_fenix_version.some
        /\ HasAsked(VERSION_TXT)
        /\ is_beta_version(version)
        /\ GotDescriptor
        /\ current_ac_version = FirstValue(src)
        /\ validate_ac_version(current_ac_version).ok
        /\ stdout[Len(stdout)].val = LeadingDigits(current_ac_version)
        /\ IsDigitRun(stdout[Len(stdout)].val)
        /\ current_ac_version[Len(stdout[Len(stdout)].val) + 1] = "."
    /\ pc \in {"Failed", "Crashed"} => Outputs = {} /\ exit.status = 1

\* C5 witness: a run that printed the output 12 for VERSION = "12.0b3".
C5_Witness ==
    /\ pc = "Done"
    /\ current_ac_version = <<"1", "2", ".", "0", "b", "3">>
    /\ stdout[Len(stdout)] =
           Line("out", "::set-output name=major-ac-version::", <<"1", "2">>)

\* C6: a run that ends by sys.exit has printed exactly one error message,
\* its last line, and has status 1; a run with no repository owner, no
\* qualifying branch or a branch not in beta ends that way.  A run whose
\* build-descriptor holds no VERSION assignment, or whose VERSION value
\* fails validate_ac_version, ends by an uncaught exception, and a run that
\* ends by an uncaught exception has printed no error message.
C6_FailureKindsApart ==
    /\ exit.how = "sys.exit" =>
        /\ pc = "Failed"
        /\ exit.status = 1
        /\ Errors = {Len(stdout)}
        /\ stdout[Len(stdout)].text \in
               {"Could not get authenticated user. Exiting.",
                "No GITHUB_REPOSITORY_OWNER set. Exiting.",
                "Could not determine current A-C version on",
                "Branch is not in beta"}
    /\ (EnvironmentRead /\ (~organization.some \/ organization.val = "")) =>
        /\ exit = SysExit1
        /\ stdout[Len(stdout)].text = "No GITHUB_REPOSITORY_OWNER set. Exiting."
    /\ (Listed /\ ~latest_fenix_version.some) =>
        /\ exit = SysExit1
        /\ stdout[Len(stdout)].text = "Could not determine current A-C version on"
    /\ (HasAsked(VERSION_TXT) /\ exit.exc # NotFound.exc
          /\ ~is_beta_version(version)) =>
        /\ exit = SysExit1
        /\ stdout[Len(stdout)].text = "Branch is not in beta"
    /\ (GotDescriptor /\ Assignments(src) = {}) =>
        exit = Uncaught("Could not match the VERSION in AndroidComponents.kt")
    /\ (GotDescriptor /\ Assignments(src) # {}
          /\ ~validate_ac_version(FirstValue(src)).ok) =>
        exit = Uncaught("Invalid AC version format")
    /\ exit.how = "uncaught exception" =>
        /\ pc = "Crashed"
        /\ Errors = {}

\* C6 witness: a build-descriptor with no VERSION assignment was fetched and
\* the run ended by the uncaught marker-not-found exception.
C6_Witness ==
    /\ GotDescriptor
    /\ Assignments(src) = {}
    /\ exit = Uncaught("Could not match the VERSION in AndroidComponents.kt")
    /\ Errors = {}

\* C7: match_ac_version_in_fenix raises the marker-not-found error when the
\* text holds no VERSION = "<value>"; otherwise it takes the value of the
\* first one, returns it if validate_ac_version accepts it and raises the
\* invalid-format error if not, whatever follows in the text.
C7_FirstAssignmentDecides ==
    pc = "match_ac_version_in_fenix" =>
        IF Assignments(arg) = {}
        THEN ret = Raise("Could not match the VERSION in AndroidComponents.kt")
        ELSE IF validate_ac_version(FirstValue(arg)).ok
        THEN ret = Ret(FirstValue(arg))
        ELSE ret = Raise("Invalid AC version format")

\* C7 witness: a text whose first assignment holds an invalid value and whose
\* second holds a valid one; the call raised the invalid-format error.
C7_Witness ==
    /\ pc = "match_ac_version_in_fenix"
    /\ arg = Assign(<<"7", ".", "0">>) \o Assign(<<"8", ".", "0", "b", "2">>)
    /\ ret = Raise("Invalid AC version format")

\* the steps the design allows
AllowedSteps ==
    {<<"Start", "Start">>, <<"Start", "BranchSelected">>,
     <<"BranchSelected", "BetaConfirmed">>, <<"BetaConfirmed", "VersionExtracted">>,
     <<"VersionExtracted", "MajorComputed">>, <<"MajorComputed", "Done">>}
    \cup ({"Start", "BranchSelected", "BetaConfirmed", "VersionExtracted",
           "MajorComputed"} \X {"Failed", "Crashed"})

IsPrefix(s, t) == Len(s) <= Len(t) /\ s = SubSeq(t, 1, Len(s))

\* a step of the run follows the path
C8_Step ==
    /\ <<State, State'>> \in AllowedSteps
    /\ ~Terminal
    /\ IsPrefix(remote, remote')

\* the calls were made in order, each at most once, each after what gates it
C8_Order ==
    /\ IsPrefix(Asked, <<"get_repo", "get_branches", VERSION_TXT, ANDROID_COMPONENTS_KT>>)
    /\ HasAsked(VERSION_TXT) =>
           /\ latest_fenix_version.some
           /\ branch_name # <<>>
    /\ HasAsked(ANDROID_COMPONENTS_KT) =>
           /\ is_beta_version(version)
           /\ remote[Len(remote)].ref = remote[Len(remote) - 1].ref
    /\ State \in {"BetaConfirmed", "VersionExtracted", "MajorComputed", "Done"} =>
           HasAsked(VERSION_TXT)
    /\ State \in {"VersionExtracted", "MajorComputed", "Done"} =>
           HasAsked(ANDROID_COMPONENTS_KT)

\* C8: every step of a run goes along Start -> BranchSelected ->
\* BetaConfirmed -> VersionExtracted -> MajorComputed -> Done or leaves it
\* for a terminal failure, and nothing happens after a terminal state; the
\* repository, the branch listing, version.txt and the build-descriptor are
\* asked for in that order, each at most once, version.txt only after a
\* branch was selected and the build-descriptor only after the beta check
\* was true; and every run reaches a terminal state.
C8_LinearPath ==
    /\ [][C8_Step]_vars
    /\ []C8_Order
    /\ <>Terminal

\* C8 witness: a run that went the whole path and made all four calls.
C8_Witness ==
    /\ pc = "Done"
    /\ Len(remote) = 4

\* C9 (as claimed): every ref a file is fetched at is the name of a listed
\* branch, the release branch with the greatest N.
C9_RefIsListedBranch ==
    \A k \in 1..Len(remote) :
        remote[k].op = "get_contents" =>
            \E j \in 1..Len(branches) :
                /\ branches[j] = remote[k].ref
                /\ IsReleaseName(branches[j])
                /\ NameMajor(branches[j]) = latest_fenix_version.val

\* C10: no run ends by sys.exit once the build-descriptor was asked for, so
\* the "Could not determine current A-C version on <owner>/fenix:<branch>"
\* message is never printed; a version get_current_ac_version_in_fenix
\* returned is never empty.
C10_NoHandledFailureAfterDescriptor ==
    /\ HasAsked(ANDROID_COMPONENTS_KT) => exit.how # "sys.exit"
    /\ \A k \in 1..Len(stdout) :
           stdout[k].text # "Could not determine current A-C version on branch"
    /\ State \in {"VersionExtracted", "MajorComputed", "Done"} =>
           current_ac_version # <<>>

\* C10 witness: the build-descriptor held VERSION = "" and the run ended by
\* the uncaught invalid-format exception.
C10_Witness ==
    /\ GotDescriptor
    /\ src = Assign(<<>>)
    /\ exit = Uncaught("Invalid AC version format")

====
